---- MODULE Spec2Model ----
(***************************************************************************)
(* Model of the WiFi-record ingestion pipeline of handlers.py:             *)
(* _validate_wifi_data, _prepare_wifi_data, _is_example_payload,           *)
(* _process_single_wifi_record, _process_multiple_wifi_records,            *)
(* _process_json_file_content and the message handlers.                    *)
(*                                                                         *)
(* A Python value is the pair <<type, payload>>: x[1] is its runtime type  *)
(* and x[2] its payload.  A str is the sequence of its pieces,             *)
(* where the piece " " is one whitespace character and every other piece   *)
(* is a maximal run of non-whitespace characters.  A float h stands for    *)
(* the real number h/2; NaN is its own tag because every ordered           *)
(* comparison with it is false.                                            *)
(***************************************************************************)
EXTENDS Integers, Sequences, FiniteSets, TLC

VARIABLES
    fn,             \* one application of a pure function: its argument and results
    pc,             \* pc[t]: position of submission t in its handler
    entry,          \* entry[t]: the handler that received submission t
    text,           \* text[t]: the raw text of the submission, as JSON tokens
    chatOk,         \* chatOk[t]: whether message.chat.id can be read
    records,        \* records[t]: parsed_data handed to the processors
    idx,            \* idx[t]: loop index i of _process_multiple_wifi_records
    total_count,    \* per-invocation locals of _process_multiple_wifi_records
    success_count,
    error_count,
    replies,        \* replies[t]: the message.answer calls made so far
    calls,          \* calls[t][k]: the controller calls made for the k-th element
    procLog,        \* procLog[t]: indexes handed to _process_single_wifi_record
    outcomes,       \* outcomes[t]: what each processed element came to
    escaped         \* escaped[t]: an exception left the handler

vars == <<fn, pc, entry, text, chatOk, records, idx, total_count, success_count,
          error_count, replies, calls, procLog, outcomes, escaped>>

handlerVars == <<pc, entry, text, chatOk, records, idx, total_count, success_count,
                 error_count, replies, calls, procLog, outcomes, escaped>>

---------------------------------------------------------------------------
(* Python values *)

None == <<"null", <<>>>>
PyInt(n) == <<"int", <<n>>>>
PyFloat(h) == <<"float", <<h>>>>
PyNaN == <<"nan", <<>>>>
PyBool(b) == <<"bool", <<b>>>>
PyStr(s) == <<"str", s>>
PyDict(f) == <<"dict", f>>
PyList(s) == <<"list", s>>

EmptyStr == PyStr(<<>>)

\* isinstance(x, str)
IsStr(x) == x[1] = "str"

\* isinstance(x, int): bool is a subclass of int
IsInt(x) == x[1] \in {"int", "bool"}

\* isinstance(x, (int, float)): NaN is a float
IsIntOrFloat(x) == x[1] \in {"int", "bool", "float", "nan"}

\* isinstance(x, dict), isinstance(x, list)
IsDict(x) == x[1] = "dict"
IsList(x) == x[1] = "list"

\* An integer with the sign of a numeric value: all a comparison with 0 reads.
\* True is 1 and False is 0; the float h/2 has the sign of h.
SignOf(x) ==
    CASE x[1] = "int" -> x[2][1]
      [] x[1] = "bool" -> (IF x[2][1] THEN 1 ELSE 0)
      [] x[1] = "float" -> x[2][1]
      [] OTHER -> 0

\* x <= 0 and x > 0 on numeric values; both are False when x is NaN
LeqZero(x) == x[1] # "nan" /\ SignOf(x) <= 0
GtZero(x) == x[1] # "nan" /\ SignOf(x) > 0

\* str.strip(): drops leading and trailing whitespace
RECURSIVE LStrip(_)
LStrip(s) == IF s # <<>> /\ Head(s) = " " THEN LStrip(Tail(s)) ELSE s

RECURSIVE RStrip(_)
RStrip(s) ==
    IF s # <<>> /\ s[Len(s)] = " " THEN RStrip(SubSeq(s, 1, Len(s) - 1)) ELSE s

Strip(s) == RStrip(LStrip(s))

\* dict.get(key, default)
DictGet(obj, key, default) == IF key \in DOMAIN obj[2] THEN obj[2][key] ELSE default

\* String literals of the source
PLACEHOLDER_BSSID == <<"00:11:22:33:44:55">>
PLACEHOLDER_SSID == <<"MyWiFi">>
SENTINEL_BSSID == <<"00:00:00:00:00:00">>

---------------------------------------------------------------------------
(* _validate_wifi_data *)

REQUIRED_FIELDS == <<"bssid", "frequency", "rssi", "ssid", "timestamp">>

\* The first required field that is not a key of data, or "" when none is missing.
RECURSIVE FirstMissing(_, _)
FirstMissing(fields, data) ==
    IF fields = <<>> THEN ""
    ELSE IF Head(fields) \notin DOMAIN data[2] THEN Head(fields)
    ELSE FirstMissing(Tail(fields), data)

\* Returns the tuple (ok, reason) as the sequence <<ok, reason>>.
_validate_wifi_data(data) ==
    IF FirstMissing(REQUIRED_FIELDS, data) # ""
    THEN <<FALSE, "missing field: " \o FirstMissing(REQUIRED_FIELDS, data)>>
    ELSE IF ~IsStr(data[2]["bssid"]) \/ Len(data[2]["bssid"][2]) = 0
    THEN <<FALSE, "bssid must be a non-empty string">>
    ELSE IF ~IsStr(data[2]["ssid"])
    THEN <<FALSE, "ssid must be a string">>
    ELSE IF ~IsIntOrFloat(data[2]["frequency"]) \/ LeqZero(data[2]["frequency"])
    THEN <<FALSE, "frequency must be a positive number">>
    ELSE IF ~IsInt(data[2]["rssi"]) \/ GtZero(data[2]["rssi"])
    THEN <<FALSE, "rssi must be a negative integer">>
    ELSE IF ~IsIntOrFloat(data[2]["timestamp"]) \/ LeqZero(data[2]["timestamp"])
    THEN <<FALSE, "timestamp must be a positive number">>
    ELSE <<TRUE, "">>

---------------------------------------------------------------------------
(* _prepare_wifi_data *)

NUMERIC_KEYS == {"frequency", "rssi", "timestamp"}
TEXT_KEYS == {"ssid", "bssid", "channel_bandwidth", "capabilities"}
PREPARED_FIELDS ==
    {"bssid", "frequency", "rssi", "ssid", "timestamp", "channel_bandwidth",
     "capabilities"}

\* The first loop: the value key holds after the None / "" replacement.
\* emptyKeys is the list of keys whose empty string is replaced by the sentinel.
ReplaceEmpty(key, value, emptyKeys) ==
    IF value = None
    THEN IF key \in NUMERIC_KEYS THEN PyInt(0)
         ELSE IF key \in TEXT_KEYS THEN EmptyStr
         ELSE value
    ELSE IF value = EmptyStr
    THEN IF key \in emptyKeys THEN PyStr(SENTINEL_BSSID) ELSE value
    ELSE value

PrepareWith(data, emptyKeys) ==
    PyDict([key \in DOMAIN data[2] \cup PREPARED_FIELDS |->
        IF key \in DOMAIN data[2] THEN ReplaceEmpty(key, data[2][key], emptyKeys)
        ELSE IF key \in NUMERIC_KEYS THEN PyInt(0)
        ELSE EmptyStr])

\* A variant whose empty-string branch also lists ssid.
PrepareEmptySsidToo(data) == PrepareWith(data, {"bssid", "ssid"})

_prepare_wifi_data(data) == PrepareWith(data, {"bssid"})

---------------------------------------------------------------------------
(* _is_example_payload: the nested function of _process_json_file_content *)
(* and its copy in the first handle_text_or_file                           *)

ExampleCheck(obj, bssidText) ==
    IF ~IsDict(obj) THEN FALSE
    ELSE IF IsStr(DictGet(obj, "bssid", EmptyStr))
            /\ bssidText = PLACEHOLDER_BSSID
    THEN TRUE
    ELSE IF DictGet(obj, "ssid", None) = PyStr(PLACEHOLDER_SSID) THEN TRUE
    ELSE FALSE

\* A variant that compares bssid without strip().
ExampleNoStrip(obj) ==
    ExampleCheck(obj, IF IsDict(obj) THEN DictGet(obj, "bssid", EmptyStr)[2] ELSE <<>>)

_is_example_payload(obj) ==
    ExampleCheck(obj,
        IF IsDict(obj) /\ IsStr(DictGet(obj, "bssid", EmptyStr))
        THEN Strip(DictGet(obj, "bssid", EmptyStr)[2]) ELSE <<>>)

_is_example_payload_text(obj) ==
    IF ~IsDict(obj) THEN FALSE
    ELSE IF IsStr(DictGet(obj, "bssid", EmptyStr))
            /\ Strip(DictGet(obj, "bssid", EmptyStr)[2]) = PLACEHOLDER_BSSID
    THEN TRUE
    ELSE IF DictGet(obj, "ssid", None) = PyStr(PLACEHOLDER_SSID) THEN TRUE
    ELSE FALSE

---------------------------------------------------------------------------
(* _process_single_wifi_record *)

\* What controller.build_network / controller.save_network do on one call pair.
STORAGE_OUTCOMES == {"build_raises", "save_raises", "save_false", "save_true"}

\* One controller call: the operation, its argument and how it ended.
Call(op, rec, result) == [op |-> op, rec |-> rec, result |-> result]

\* bool(x) of a tuple: a tuple is falsy only when it is empty
TupleTruthy(tuple) == Len(tuple) > 0

\* The try block of lines 160-172; catches says whether "except Exception" is there.
StoreRecord(prepared_data, storage, catches) ==
    CASE storage = "build_raises" ->
            [ret |-> IF catches THEN "false" ELSE "raised",
             calls |-> <<Call("build_network", prepared_data, "raises")>>]
      [] storage = "save_raises" ->
            [ret |-> IF catches THEN "false" ELSE "raised",
             calls |-> <<Call("build_network", prepared_data, "ok"),
                         Call("save_network", prepared_data, "raises")>>]
      [] storage = "save_false" ->
            [ret |-> "false",
             calls |-> <<Call("build_network", prepared_data, "ok"),
                         Call("save_network", prepared_data, "false")>>]
      [] OTHER ->
            [ret |-> "true",
             calls |-> <<Call("build_network", prepared_data, "ok"),
                         Call("save_network", prepared_data, "true")>>]

ProcessSingleWith(data, chat_ok, storage, catches) ==
    IF ~chat_ok
    THEN [ret |-> "raised", calls |-> <<>>]
    ELSE IF ~TupleTruthy(_validate_wifi_data(_prepare_wifi_data(data)))
    THEN [ret |-> "false", calls |-> <<>>]
    ELSE StoreRecord(_prepare_wifi_data(data), storage, catches)

\* A variant without the try / except around the controller calls.
ProcessSingleNoTry(data, chat_ok, storage) ==
    ProcessSingleWith(data, chat_ok, storage, FALSE)

\* ret is "true" or "false" for the returned bool, "raised" when an exception leaves
\* the coroutine; calls are the controller calls it made.  chat_ok is whether
\* message.chat.id (line 149, outside the try block) can be read.
_process_single_wifi_record(data, chat_ok, storage) ==
    ProcessSingleWith(data, chat_ok, storage, TRUE)

---------------------------------------------------------------------------
(* _process_multiple_wifi_records: one iteration of the for loop *)

\* acc holds the locals success_count and error_count, and what the iteration
\* did: the controller calls, whether the single-record processor was awaited,
\* what the element came to, and whether an exception left the loop.
LoopBodyWith(acc, record, chat_ok, storage, countsNonDict, catches) ==
    IF ~IsDict(record)
    THEN [acc EXCEPT !.error_count = IF countsNonDict THEN @ + 1 ELSE @,
                     !.calls = <<>>, !.awaited = FALSE, !.outcome = "not_dict"]
    ELSE LET r == _process_single_wifi_record(record, chat_ok, storage) IN
         IF r.ret = "true"
         THEN [acc EXCEPT !.success_count = @ + 1,
                          !.calls = r.calls, !.awaited = TRUE, !.outcome = "true"]
         ELSE IF r.ret = "false"
         THEN [acc EXCEPT !.error_count = @ + 1,
                          !.calls = r.calls, !.awaited = TRUE, !.outcome = "false"]
         ELSE IF catches
         THEN [acc EXCEPT !.error_count = @ + 1,
                          !.calls = r.calls, !.awaited = TRUE, !.outcome = "raised"]
         ELSE [acc EXCEPT !.calls = r.calls, !.awaited = TRUE, !.outcome = "raised",
                          !.aborted = TRUE]

\* A variant whose isinstance branch continues without counting the element.
LoopBodySkipsNonDict(acc, record, chat_ok, storage) ==
    LoopBodyWith(acc, record, chat_ok, storage, FALSE, TRUE)

\* A variant without the try / except around the await.
LoopBodyNoTry(acc, record, chat_ok, storage) ==
    LoopBodyWith(acc, record, chat_ok, storage, TRUE, FALSE)

LoopBody(acc, record, chat_ok, storage) ==
    LoopBodyWith(acc, record, chat_ok, storage, TRUE, TRUE)

NewAcc(success, error) ==
    [success_count |-> success, error_count |-> error, calls |-> <<>>,
     awaited |-> FALSE, outcome |-> "", aborted |-> FALSE]

---------------------------------------------------------------------------
(* json.loads on a text given as its tokens.  An atom token is a scalar    *)
(* literal or a whole {...} object literal, carrying the value it denotes; *)
(* junk is a word that is no JSON literal.                                 *)

Tok(k, a) == [k |-> k, a |-> a]
LB == Tok("[", None)
RB == Tok("]", None)
COMMA == Tok(",", None)
JUNK == Tok("junk", None)
Atom(value) == Tok("atom", value)

ParseFail == [ok |-> FALSE, val |-> None, rest |-> <<>>]

RECURSIVE ParseValue(_)
RECURSIVE ParseElements(_, _)

\* value := atom | "[" "]" | "[" value ("," value)* "]"
ParseValue(toks) ==
    IF toks = <<>> THEN ParseFail
    ELSE IF Head(toks).k = "atom"
    THEN [ok |-> TRUE, val |-> Head(toks).a, rest |-> Tail(toks)]
    ELSE IF Head(toks).k = "["
    THEN IF Len(toks) >= 2 /\ toks[2].k = "]"
         THEN [ok |-> TRUE, val |-> PyList(<<>>), rest |-> SubSeq(toks, 3, Len(toks))]
         ELSE ParseElements(Tail(toks), <<>>)
    ELSE ParseFail

ParseElements(toks, sofar) ==
    LET r == ParseValue(toks) IN
    IF ~r.ok \/ r.rest = <<>> THEN ParseFail
    ELSE IF Head(r.rest).k = ","
    THEN ParseElements(Tail(r.rest), Append(sofar, r.val))
    ELSE IF Head(r.rest).k = "]"
    THEN [ok |-> TRUE, val |-> PyList(Append(sofar, r.val)), rest |-> Tail(r.rest)]
    ELSE ParseFail

\* extraData is whether text left after the value raises JSONDecodeError.
LoadsWith(toks, extraData) ==
    LET r == ParseValue(toks) IN
    IF r.ok /\ (r.rest = <<>> \/ ~extraData)
    THEN [ok |-> TRUE, val |-> r.val]
    ELSE [ok |-> FALSE, val |-> None]

\* A variant that stops at the end of the first value and ignores what follows.
LoadsIgnoresExtraData(toks) == LoadsWith(toks, FALSE)

\* ok = FALSE stands for JSONDecodeError.
json_loads(toks) == LoadsWith(toks, TRUE)

\* The text json.dumps writes for a value.
RECURSIVE Render(_)
RECURSIVE RenderElements(_)
RenderElements(s) ==
    IF s = <<>> THEN <<>>
    ELSE IF Len(s) = 1 THEN Render(s[1])
    ELSE Render(Head(s)) \o <<COMMA>> \o RenderElements(Tail(s))

Render(value) ==
    IF IsList(value) THEN <<LB>> \o RenderElements(value[2]) \o <<RB>>
    ELSE <<Atom(value)>>

---------------------------------------------------------------------------
(* The if / elif chains after json.loads                                   *)

\* any(_is_example_payload(item) for item in parsed_data if isinstance(item, dict))
AnyExampleFile(items) ==
    \E i \in 1..Len(items) : IsDict(items[i]) /\ _is_example_payload(items[i])

AnyExampleText(items) ==
    \E i \in 1..Len(items) : IsDict(items[i]) /\ _is_example_payload_text(items[i])

\* _process_json_file_content
RouteFileContent(parsed) ==
    IF ~parsed.ok THEN "bad_json"
    ELSE IF IsList(parsed.val)
    THEN IF AnyExampleFile(parsed.val[2]) THEN "example" ELSE "batch"
    ELSE IF IsDict(parsed.val)
    THEN IF _is_example_payload(parsed.val) THEN "example" ELSE "single"
    ELSE "unsupported"

\* handle_text_or_file, first definition
RouteText(parsed) ==
    IF ~parsed.ok THEN "bad_json"
    ELSE IF IsList(parsed.val)
    THEN IF AnyExampleText(parsed.val[2]) THEN "example" ELSE "batch"
    ELSE IF IsDict(parsed.val)
    THEN IF _is_example_payload_text(parsed.val) THEN "example" ELSE "single"
    ELSE "unsupported"

\* handle_text_or_file, second definition: no example check
RouteTextSecond(parsed) ==
    IF ~parsed.ok THEN "bad_json"
    ELSE IF IsList(parsed.val) THEN "batch"
    ELSE IF IsDict(parsed.val) THEN "single"
    ELSE "unsupported"

\* The handlers that take a submission.
ENTRIES == {"file", "text", "text_second"}

Route(e, toks) ==
    CASE e = "file" -> RouteFileContent(json_loads(toks))
      [] e = "text" -> RouteText(json_loads(toks))
      [] OTHER -> RouteTextSecond(json_loads(toks))

---------------------------------------------------------------------------
(* Bounds and inputs *)

\* Longest JSON array submitted to a handler.
MaxBatch == 3

\* Submissions in flight at once.
NumTasks == 2

Tasks == 1..NumTasks

\* A variant that keeps the counters at module level, one set for every invocation.
ModuleLevelFrame(t) == 1

\* Where the invocation made for submission t keeps total_count, success_count and
\* error_count: they are locals, one frame per invocation.
Frame(t) == t

SeqsUpTo(S, n) == UNION {[1..k -> S] : k \in 0..n}

WS == " "

\* A record: the keys whose choice is not ABSENT.
ABSENT == <<"absent", <<>>>>
MkRecord(choice) ==
    PyDict([key \in {k \in DOMAIN choice : choice[k] # ABSENT} |-> choice[key]])

BSSID_CHOICES ==
    {ABSENT, None, EmptyStr, PyStr(<<"AA:BB:CC:DD:EE:FF">>), PyStr(PLACEHOLDER_BSSID),
     PyStr(<<WS, "00:11:22:33:44:55", WS>>), PyInt(5)}
SSID_CHOICES ==
    {ABSENT, None, EmptyStr, PyStr(<<"OfficeNet">>), PyStr(PLACEHOLDER_SSID), PyInt(7)}
FREQUENCY_CHOICES ==
    {ABSENT, None, PyInt(0), PyInt(2412), PyFloat(5), PyBool(TRUE), PyNaN,
     PyStr(<<"2412">>)}
RSSI_CHOICES ==
    {ABSENT, None, PyInt(0), PyInt(-50), PyInt(1), PyFloat(-3), PyBool(FALSE),
     PyStr(<<"-50">>)}
TIMESTAMP_CHOICES == {ABSENT, None, PyInt(0), PyInt(1698115200), PyFloat(3)}
BANDWIDTH_CHOICES == {ABSENT, None, PyStr(<<"20">>)}
EXTRA_CHOICES == {ABSENT, None}

FnRecords ==
    {MkRecord([bssid |-> b, ssid |-> s, frequency |-> f, rssi |-> r, timestamp |-> ts,
               channel_bandwidth |-> cb, note |-> ex]) :
        b \in BSSID_CHOICES, s \in SSID_CHOICES, f \in FREQUENCY_CHOICES,
        r \in RSSI_CHOICES, ts \in TIMESTAMP_CHOICES, cb \in BANDWIDTH_CHOICES,
        ex \in EXTRA_CHOICES}

NonObjects == {None, PyInt(42), PyStr(PLACEHOLDER_BSSID), PyBool(TRUE), PyList(<<>>)}

FnArgs == FnRecords \cup NonObjects

\* The records of the instructions and of the testable properties.
VALID_RECORD ==
    PyDict([bssid |-> PyStr(<<"AA:BB:CC:DD:EE:FF">>), frequency |-> PyInt(5180),
            rssi |-> PyInt(-65), ssid |-> PyStr(<<"OfficeNet">>),
            timestamp |-> PyInt(1698115300)])
INVALID_RECORD ==
    PyDict([bssid |-> PyStr(<<"a">>), frequency |-> PyInt(0), rssi |-> PyInt(-1),
            ssid |-> PyStr(<<"b">>), timestamp |-> PyInt(1)])
EXAMPLE_BSSID_RECORD ==
    PyDict([bssid |-> PyStr(<<"00:11:22:33:44:55", WS>>), frequency |-> PyInt(2412),
            rssi |-> PyInt(-50), ssid |-> PyStr(<<"x">>),
            timestamp |-> PyInt(1698115200)])
EXAMPLE_SSID_RECORD ==
    PyDict([bssid |-> PyStr(<<"AA:BB:CC:DD:EE:FF">>), frequency |-> PyInt(2412),
            rssi |-> PyInt(-50), ssid |-> PyStr(PLACEHOLDER_SSID),
            timestamp |-> PyInt(1698115200)])

ObjectDocs == {VALID_RECORD, INVALID_RECORD, EXAMPLE_BSSID_RECORD, EXAMPLE_SSID_RECORD}
BatchElements == {VALID_RECORD, INVALID_RECORD, EXAMPLE_BSSID_RECORD, PyInt(42)}
ScalarDocs == {PyInt(42), PyStr(<<"x">>), PyBool(TRUE), None}
ArrayDocs == {PyList(s) : s \in SeqsUpTo(BatchElements, MaxBatch)}

ScalarTexts == {Render(d) : d \in ScalarDocs}

\* Texts that are not JSON: empty, a bare word, two words ("not json"), an array
\* that is not closed, text after the value, a trailing comma, a missing comma.
MalformedTexts ==
    {<<>>, <<JUNK>>, <<JUNK, JUNK>>,
     <<LB, Atom(VALID_RECORD), COMMA, Atom(INVALID_RECORD)>>,
     <<Atom(VALID_RECORD), RB>>,
     <<LB, Atom(VALID_RECORD), RB, Atom(VALID_RECORD)>>,
     <<LB, Atom(VALID_RECORD), COMMA, RB>>,
     <<LB, Atom(VALID_RECORD), Atom(VALID_RECORD), RB>>}

Texts ==
    {Render(d) : d \in ObjectDocs \cup ScalarDocs \cup ArrayDocs} \cup MalformedTexts

\* The batches of the concurrent submissions.
ConcBatches ==
    {<<>>, <<VALID_RECORD, PyInt(42)>>, <<PyInt(42), INVALID_RECORD>>}

---------------------------------------------------------------------------
(* State *)

FnIdle(arg) ==
    [op |-> "none", arg |-> arg, valid |-> <<>>, prepared |-> None,
     prepared_again |-> None, example |-> FALSE, example_text |-> FALSE]

Reply(kind) == [kind |-> kind, success |-> 0, error |-> 0, total |-> 0]
Summary(success, error, total) ==
    [kind |-> "summary", success |-> success, error |-> error, total |-> total]

HandlersIdle ==
    /\ pc = [t \in Tasks |-> "idle"]
    /\ entry = [t \in Tasks |-> "text"]
    /\ text = [t \in Tasks |-> <<>>]
    /\ chatOk = [t \in Tasks |-> TRUE]
    /\ records = [t \in Tasks |-> <<>>]
    /\ idx = [t \in Tasks |-> 0]
    /\ total_count = [t \in Tasks |-> 0]
    /\ success_count = [t \in Tasks |-> 0]
    /\ error_count = [t \in Tasks |-> 0]
    /\ replies = [t \in Tasks |-> <<>>]
    /\ calls = [t \in Tasks |-> <<>>]
    /\ procLog = [t \in Tasks |-> <<>>]
    /\ outcomes = [t \in Tasks |-> <<>>]
    /\ escaped = [t \in Tasks |-> FALSE]

Init ==
    /\ fn = FnIdle(None)
    /\ HandlersIdle

---------------------------------------------------------------------------
(* The handlers *)

\* A message arrives at one of the registered handlers.  handle_json_file has
\* downloaded and decoded the file and answers that it was received.
Submit(t) ==
    /\ pc[t] = "idle"
    /\ \E e \in ENTRIES, x \in Texts, c \in BOOLEAN :
        /\ entry' = [entry EXCEPT ![t] = e]
        /\ text' = [text EXCEPT ![t] = x]
        /\ chatOk' = [chatOk EXCEPT ![t] = c]
        /\ replies' = [replies EXCEPT ![t] =
                IF e = "file" THEN <<Reply("file_received")>> ELSE <<>>]
    /\ pc' = [pc EXCEPT ![t] = "received"]
    /\ UNCHANGED <<fn, records, idx, total_count, success_count, error_count, calls,
                   procLog, outcomes, escaped>>

\* message.answer followed by return, nothing processed.
AnswerAndReturn(t, kind) ==
    /\ replies' = [replies EXCEPT ![t] = Append(@, Reply(kind))]
    /\ pc' = [pc EXCEPT ![t] = "done"]
    /\ UNCHANGED <<fn, entry, text, chatOk, records, idx, total_count, success_count,
                   error_count, calls, procLog, outcomes, escaped>>

\* except json.JSONDecodeError
BadJson(t) ==
    /\ pc[t] = "received"
    /\ Route(entry[t], text[t]) = "bad_json"
    /\ AnswerAndReturn(t, "bad_json")

\* the example warning
RejectExample(t) ==
    /\ pc[t] = "received"
    /\ Route(entry[t], text[t]) = "example"
    /\ AnswerAndReturn(t, "example_warning")

\* neither a list nor a dict
Unsupported(t) ==
    /\ pc[t] = "received"
    /\ Route(entry[t], text[t]) = "unsupported"
    /\ AnswerAndReturn(t, "unsupported")

\* isinstance(parsed_data, list): _process_multiple_wifi_records is awaited
StartBatch(t) ==
    /\ pc[t] = "received"
    /\ Route(entry[t], text[t]) = "batch"
    /\ records' = [records EXCEPT ![t] = json_loads(text[t]).val[2]]
    /\ pc' = [pc EXCEPT ![t] = "batch"]
    /\ UNCHANGED <<fn, entry, text, chatOk, idx, total_count, success_count,
                   error_count, replies, calls, procLog, outcomes, escaped>>

\* isinstance(parsed_data, dict): _process_single_wifi_record is awaited
StartSingle(t) ==
    /\ pc[t] = "received"
    /\ Route(entry[t], text[t]) = "single"
    /\ records' = [records EXCEPT ![t] = <<json_loads(text[t]).val>>]
    /\ pc' = [pc EXCEPT ![t] = "single"]
    /\ UNCHANGED <<fn, entry, text, chatOk, idx, total_count, success_count,
                   error_count, replies, calls, procLog, outcomes, escaped>>

\* An exception that leaves the processing: handle_json_file catches it and answers,
\* handle_text_or_file lets it go.
Raise(t) ==
    /\ replies' = [replies EXCEPT ![t] =
            IF entry[t] = "file" THEN Append(@, Reply("file_error")) ELSE @]
    /\ escaped' = [escaped EXCEPT ![t] = entry[t] # "file"]

\* The single-record path of a handler: the await and the answer on success.
SingleRecord(t) ==
    /\ pc[t] = "single"
    /\ \E storage \in STORAGE_OUTCOMES :
        LET r == _process_single_wifi_record(records[t][1], chatOk[t], storage) IN
        /\ calls' = [calls EXCEPT ![t] = Append(@, r.calls)]
        /\ procLog' = [procLog EXCEPT ![t] = Append(@, 1)]
        /\ outcomes' = [outcomes EXCEPT ![t] = Append(@, r.ret)]
        /\ IF r.ret = "raised"
           THEN Raise(t)
           ELSE /\ replies' = [replies EXCEPT ![t] =
                        IF r.ret = "true" THEN Append(@, Reply("saved")) ELSE @]
                /\ UNCHANGED escaped
    /\ pc' = [pc EXCEPT ![t] = "done"]
    /\ UNCHANGED <<fn, entry, text, chatOk, records, idx, total_count, success_count,
                   error_count>>

\* _process_multiple_wifi_records up to the loop
BatchBegin(t) ==
    /\ pc[t] = "batch"
    /\ IF records[t] = <<>>
       THEN /\ replies' = [replies EXCEPT ![t] = Append(@, Reply("no_records"))]
            /\ pc' = [pc EXCEPT ![t] = "done"]
            /\ UNCHANGED <<idx, total_count, success_count, error_count>>
       ELSE /\ total_count' = [total_count EXCEPT ![Frame(t)] = Len(records[t])]
            /\ success_count' = [success_count EXCEPT ![Frame(t)] = 0]
            /\ error_count' = [error_count EXCEPT ![Frame(t)] = 0]
            /\ replies' = [replies EXCEPT ![t] = Append(@, Reply("starting"))]
            /\ idx' = [idx EXCEPT ![t] = 1]
            /\ pc' = [pc EXCEPT ![t] = "loop"]
    /\ UNCHANGED <<fn, entry, text, chatOk, records, calls, procLog, outcomes, escaped>>

\* One iteration of the for loop
BatchElement(t) ==
    /\ pc[t] = "loop"
    /\ idx[t] <= Len(records[t])
    /\ \E storage \in STORAGE_OUTCOMES :
        LET acc == LoopBody(NewAcc(success_count[Frame(t)], error_count[Frame(t)]),
                            records[t][idx[t]], chatOk[t], storage) IN
        /\ success_count' = [success_count EXCEPT ![Frame(t)] = acc.success_count]
        /\ error_count' = [error_count EXCEPT ![Frame(t)] = acc.error_count]
        /\ calls' = [calls EXCEPT ![t] = Append(@, acc.calls)]
        /\ procLog' = [procLog EXCEPT ![t] =
                IF acc.awaited THEN Append(@, idx[t]) ELSE @]
        /\ outcomes' = [outcomes EXCEPT ![t] = Append(@, acc.outcome)]
        /\ IF acc.aborted
           THEN /\ Raise(t)
                /\ pc' = [pc EXCEPT ![t] = "done"]
                /\ UNCHANGED idx
           ELSE /\ idx' = [idx EXCEPT ![t] = @ + 1]
                /\ UNCHANGED <<pc, replies, escaped>>
    /\ UNCHANGED <<fn, entry, text, chatOk, records, total_count>>

\* The summary after the loop
BatchReport(t) ==
    /\ pc[t] = "loop"
    /\ idx[t] > Len(records[t])
    /\ replies' = [replies EXCEPT ![t] =
            Append(@, Summary(success_count[Frame(t)], error_count[Frame(t)],
                              total_count[Frame(t)]))]
    /\ pc' = [pc EXCEPT ![t] = "done"]
    /\ UNCHANGED <<fn, entry, text, chatOk, records, idx, total_count, success_count,
                   error_count, calls, procLog, outcomes, escaped>>

Next ==
    \E t \in {1} :
        \/ Submit(t)
        \/ BadJson(t)
        \/ RejectExample(t)
        \/ Unsupported(t)
        \/ StartBatch(t)
        \/ StartSingle(t)
        \/ SingleRecord(t)
        \/ BatchBegin(t)
        \/ BatchElement(t)
        \/ BatchReport(t)

Spec == Init /\ [][Next]_vars

---------------------------------------------------------------------------
(* Several batches in flight.  The event loop switches coroutines only at  *)
(* an await that suspends; the steps below may interleave after every loop *)
(* iteration, which includes every schedule the event loop can produce.    *)

InitConc ==
    /\ fn = FnIdle(None)
    /\ pc = [t \in Tasks |-> "batch"]
    /\ entry = [t \in Tasks |-> "text"]
    /\ records \in [Tasks -> ConcBatches]
    /\ text = [t \in Tasks |-> Render(PyList(records[t]))]
    /\ chatOk \in [Tasks -> BOOLEAN]
    /\ idx = [t \in Tasks |-> 0]
    /\ total_count = [t \in Tasks |-> 0]
    /\ success_count = [t \in Tasks |-> 0]
    /\ error_count = [t \in Tasks |-> 0]
    /\ replies = [t \in Tasks |-> <<>>]
    /\ calls = [t \in Tasks |-> <<>>]
    /\ procLog = [t \in Tasks |-> <<>>]
    /\ outcomes = [t \in Tasks |-> <<>>]
    /\ escaped = [t \in Tasks |-> FALSE]

NextConc ==
    \E t \in Tasks :
        \/ BatchBegin(t)
        \/ BatchElement(t)
        \/ BatchReport(t)

SpecConc == InitConc /\ [][NextConc]_vars

---------------------------------------------------------------------------
(* The pure functions applied to one argument *)

InitFn ==
    /\ fn \in {FnIdle(arg) : arg \in FnArgs}
    /\ HandlersIdle

FnValidate ==
    /\ fn.op = "none"
    /\ IsDict(fn.arg)
    /\ fn' = [fn EXCEPT !.op = "validate", !.valid = _validate_wifi_data(fn.arg)]
    /\ UNCHANGED handlerVars

FnPrepare ==
    /\ fn.op = "none"
    /\ IsDict(fn.arg)
    /\ fn' = [fn EXCEPT !.op = "prepare", !.prepared = _prepare_wifi_data(fn.arg)]
    /\ UNCHANGED handlerVars

FnPrepareAgain ==
    /\ fn.op = "prepare"
    /\ fn' = [fn EXCEPT !.op = "prepare_again",
                        !.prepared_again = _prepare_wifi_data(fn.prepared)]
    /\ UNCHANGED handlerVars

FnDetect ==
    /\ fn.op = "none"
    /\ fn' = [fn EXCEPT !.op = "detect",
                        !.example = _is_example_payload(fn.arg),
                        !.example_text = _is_example_payload_text(fn.arg)]
    /\ UNCHANGED handlerVars

NextFn == FnValidate \/ FnPrepare \/ FnPrepareAgain \/ FnDetect

SpecFn == InitFn /\ [][NextFn]_vars

---------------------------------------------------------------------------
(* Properties *)

\* ok of _validate_wifi_data's result
ValidOk(data) == _validate_wifi_data(data)[1]

\* Every controller call made for submission t.
RECURSIVE Flatten(_)
Flatten(ss) == IF ss = <<>> THEN <<>> ELSE Head(ss) \o Flatten(Tail(ss))
AllCalls(t) == Flatten(calls[t])

LastReply(t) == replies[t][Len(replies[t])]
Replied(t, kind) == replies[t] # <<>> /\ LastReply(t).kind = kind

\* The k-th element of submission t was handed to _process_single_wifi_record,
\* which got as far as validating it.
Processed(t, k) == k \in 1..Len(outcomes[t]) /\ IsDict(records[t][k]) /\ chatOk[t]

\* C1: whenever the normalized record fails _validate_wifi_data,
\* _process_single_wifi_record returns false and calls neither build_network nor
\* save_network; so every record handed to the controller passes validation.
C1_InvalidRecordNeverStored ==
    \A t \in Tasks :
        /\ \A k \in 1..Len(outcomes[t]) :
              (Processed(t, k) /\ ~ValidOk(_prepare_wifi_data(records[t][k])))
                  => (outcomes[t][k] = "false" /\ calls[t][k] = <<>>)
        /\ \A i \in 1..Len(AllCalls(t)) : ValidOk(AllCalls(t)[i].rec)

\* The controller never failed for submission t.
StorageNeverFailed(t) ==
    \A i \in 1..Len(AllCalls(t)) : AllCalls(t)[i].result \in {"ok", "true"}

\* The elements of a batch that are objects and pass validation once normalized.
ValidElements(recs) ==
    {k \in 1..Len(recs) : IsDict(recs[k]) /\ ValidOk(_prepare_wifi_data(recs[k]))}

\* C2: for a non-empty batch and a controller that never fails, the summary has
\* total = number of elements, success = number of object elements that pass
\* validation after normalization, error = number of the other elements.
C2_BatchAccounting ==
    \A t \in Tasks :
        (pc[t] = "done" /\ Replied(t, "summary") /\ chatOk[t] /\ StorageNeverFailed(t))
            => LastReply(t) =
                 Summary(Cardinality(ValidElements(records[t])),
                         Len(records[t]) - Cardinality(ValidElements(records[t])),
                         Len(records[t]))

\* The submitted text is an object the example detector matches, or an array with
\* an object element it matches.
HoldsExample(toks) ==
    LET parsed == json_loads(toks) IN
    /\ parsed.ok
    /\ \/ IsDict(parsed.val) /\ _is_example_payload(parsed.val)
       \/ IsList(parsed.val) /\ AnyExampleFile(parsed.val[2])

\* C3: on every registered entry point, a submission that holds an example
\* payload is rejected whole with the warning and no controller call is made.
C3_ExampleRejectedEverywhere ==
    \A t \in Tasks :
        (pc[t] = "done" /\ chatOk[t] /\ HoldsExample(text[t]))
            => (AllCalls(t) = <<>> /\ Replied(t, "example_warning"))

---------------------------------------------------------------------------

HasKey(obj, key) == key \in DOMAIN obj[2]

\* C4 as stated: normalizing a normalized record changes nothing, whatever the
\* candidate record is.
C4_IdempotentForEveryRecord ==
    fn.op = "prepare_again" => fn.prepared_again = fn.prepared

\* C4: normalization is idempotent for every candidate record whose bssid is
\* present and not null (the empty string included); when bssid is absent or
\* null the first pass leaves bssid "" and the second pass turns it into the
\* sentinel, changing nothing else.
C4_IdempotentWhenBssidSet ==
    fn.op = "prepare_again" =>
        IF HasKey(fn.arg, "bssid") /\ fn.arg[2]["bssid"] # None
        THEN fn.prepared_again = fn.prepared
        ELSE /\ fn.prepared[2]["bssid"] = EmptyStr
             /\ fn.prepared_again =
                    PyDict([fn.prepared[2] EXCEPT !["bssid"] = PyStr(SENTINEL_BSSID)])

C4_Witness ==
    /\ fn.op = "prepare_again"
    /\ HasKey(fn.arg, "bssid") /\ fn.arg[2]["bssid"] = EmptyStr
    /\ HasKey(fn.arg, "ssid") /\ fn.arg[2]["ssid"] = None
    /\ ~HasKey(fn.arg, "frequency")
    /\ fn.prepared[2]["bssid"] = PyStr(SENTINEL_BSSID)
    /\ fn.prepared[2]["ssid"] = EmptyStr
    /\ fn.prepared[2]["frequency"] = PyInt(0)
    /\ fn.prepared_again = fn.prepared

\* s is the placeholder BSSID with whitespace, if any, only before and after it.
PaddedPlaceholder(s) ==
    \E i \in 1..Len(s) :
        /\ s[i] = PLACEHOLDER_BSSID[1]
        /\ \A j \in 1..Len(s) : j # i => s[j] = WS

BssidIsPlaceholder(obj) ==
    HasKey(obj, "bssid") /\ IsStr(obj[2]["bssid"]) /\ PaddedPlaceholder(obj[2]["bssid"][2])

SsidIsPlaceholder(obj) ==
    HasKey(obj, "ssid") /\ obj[2]["ssid"] = PyStr(PLACEHOLDER_SSID)

IsJsonNumber(x) == x[1] \in {"int", "float", "nan"}
IsJsonInteger(x) == x[1] = "int"

\* The record the claim calls valid.
RecordValid(obj) ==
    /\ \A i \in 1..Len(REQUIRED_FIELDS) : HasKey(obj, REQUIRED_FIELDS[i])
    /\ IsStr(obj[2]["bssid"]) /\ obj[2]["bssid"][2] # <<>>
    /\ IsStr(obj[2]["ssid"])
    /\ IsJsonNumber(obj[2]["frequency"]) /\ GtZero(obj[2]["frequency"])
    /\ IsJsonInteger(obj[2]["rssi"]) /\ LeqZero(obj[2]["rssi"])
    /\ IsJsonNumber(obj[2]["timestamp"]) /\ GtZero(obj[2]["timestamp"])

\* C6: _validate_wifi_data returns ok = true exactly when the five required keys
\* are present, bssid is a non-empty string, ssid a string, frequency a number > 0,
\* rssi an integer <= 0 and timestamp a number > 0.
C6_ValidatesExactlyValidRecords ==
    fn.op = "validate" => (fn.valid[1] <=> RecordValid(fn.arg))

---------------------------------------------------------------------------

\* A controller call of the sequence raised, or save_network reported failure.
StorageFailed(cs) == \E i \in 1..Len(cs) : cs[i].result \in {"raises", "false"}

\* save_network was called and reported success.
SaveSucceeded(cs) ==
    cs # <<>> /\ cs[Len(cs)].op = "save_network" /\ cs[Len(cs)].result = "true"

\* C7: if build_network or save_network raises, or save_network reports failure,
\* _process_single_wifi_record returns false and no exception leaves it; it
\* returns true only when save_network reported success.
C7_StorageFailureIsFalse ==
    \A t \in Tasks : \A k \in 1..Len(outcomes[t]) :
        /\ StorageFailed(calls[t][k]) => outcomes[t][k] = "false"
        /\ outcomes[t][k] = "true" => SaveSucceeded(calls[t][k])
        /\ (StorageFailed(calls[t][k]) /\ pc[t] = "done") => ~escaped[t]

C7_Witness ==
    \E t \in Tasks :
        /\ pc[t] = "done"
        /\ entry[t] = "text"
        /\ records[t] = <<VALID_RECORD>>
        /\ Len(calls[t]) = 1
        /\ Len(calls[t][1]) = 1
        /\ calls[t][1][1].op = "build_network"
        /\ calls[t][1][1].result = "raises"
        /\ outcomes[t] = <<"false">>
        /\ ~escaped[t]

\* The indexes up to n of the elements that are objects, in input order.
RECURSIVE DictIndexes(_, _)
DictIndexes(recs, n) ==
    IF n = 0 THEN <<>>
    ELSE IF IsDict(recs[n]) THEN Append(DictIndexes(recs, n - 1), n)
    ELSE DictIndexes(recs, n - 1)

\* Submission t went into the loop of _process_multiple_wifi_records.
InBatch(t) == \E i \in 1..Len(replies[t]) : replies[t][i].kind = "starting"

\* C8: no element's failure ends the batch: the loop goes on to every later
\* element, every object element is handed to the single-record processor once
\* and in input order, and the summary is always reported.
C8_BatchNeverAborts ==
    \A t \in Tasks :
        /\ pc[t] = "loop" =>
              /\ Len(outcomes[t]) = idx[t] - 1
              /\ procLog[t] = DictIndexes(records[t], idx[t] - 1)
        /\ (pc[t] = "done" /\ InBatch(t)) =>
              /\ Len(outcomes[t]) = Len(records[t])
              /\ procLog[t] = DictIndexes(records[t], Len(records[t]))
              /\ Replied(t, "summary")
              /\ ~escaped[t]

C8_Witness ==
    \E t \in Tasks :
        /\ pc[t] = "done"
        /\ records[t] = <<PyInt(42), INVALID_RECORD, VALID_RECORD>>
        /\ outcomes[t] = <<"not_dict", "false", "true">>
        /\ StorageFailed(calls[t][2])
        /\ procLog[t] = <<2, 3>>
        /\ Replied(t, "summary")

C8_WitnessRaised ==
    \E t \in Tasks :
        /\ pc[t] = "done"
        /\ Len(records[t]) = 2
        /\ outcomes[t] = <<"raised", "raised">>
        /\ Replied(t, "summary")

\* C9: a text that is not JSON, or is a JSON scalar, ends with an error answer;
\* no record is processed and no controller call is made.
C9_MalformedOrScalarRejected ==
    \A t \in Tasks :
        (pc[t] # "idle" /\ text[t] \in MalformedTexts \cup ScalarTexts) =>
            /\ pc[t] \in {"received", "done"}
            /\ procLog[t] = <<>>
            /\ AllCalls(t) = <<>>
            /\ ~escaped[t]
            /\ pc[t] = "done" =>
                  Replied(t, IF text[t] \in MalformedTexts THEN "bad_json"
                             ELSE "unsupported")

C9_Witness ==
    \E t \in Tasks :
        /\ pc[t] = "done"
        /\ text[t] = <<JUNK, JUNK>>
        /\ Replied(t, "bad_json")
        /\ AllCalls(t) = <<>>

C9_WitnessScalar ==
    \E t \in Tasks :
        /\ pc[t] = "done"
        /\ text[t] = <<Atom(PyInt(42))>>
        /\ Replied(t, "unsupported")
        /\ AllCalls(t) = <<>>

\* The elements of submission t that the controller saved.
SavedElements(t) ==
    {k \in 1..Len(calls[t]) : SaveSucceeded(calls[t][k])}

\* C10: with several batches in flight, the summary of each batch is the one its
\* own elements and their own controller results give: success is the number of
\* its elements that were saved, error the number of its other elements, total
\* its length.
C10_CountsPerBatch ==
    \A t \in Tasks :
        (pc[t] = "done" /\ records[t] # <<>>) =>
            /\ Len(calls[t]) = Len(records[t])
            /\ Replied(t, "summary")
            /\ LastReply(t) =
                  Summary(Cardinality(SavedElements(t)),
                          Len(records[t]) - Cardinality(SavedElements(t)),
                          Len(records[t]))

\* Two batches both inside their loops, each with an element already counted.
C10_Witness ==
    /\ pc[1] = "loop" /\ pc[2] = "loop"
    /\ records[1] # records[2]
    /\ idx[1] = 2 /\ idx[2] = 3
    /\ success_count[1] = 1
    /\ error_count[2] = 2

---------------------------------------------------------------------------

\* C11: at every point of the loop success_count + error_count is the number of
\* elements processed so far, and the summary reports success + error = total =
\* length of the batch, whatever the elements are and however the controller
\* behaves.
C11_CountsAddUp ==
    \A t \in Tasks :
        /\ pc[t] = "loop" =>
              /\ success_count[Frame(t)] + error_count[Frame(t)] = idx[t] - 1
              /\ success_count[Frame(t)] + error_count[Frame(t)] = Len(outcomes[t])
              /\ idx[t] - 1 <= Len(records[t])
              /\ total_count[Frame(t)] = Len(records[t])
        /\ (pc[t] = "done" /\ Replied(t, "summary")) =>
              /\ LastReply(t).success + LastReply(t).error = LastReply(t).total
              /\ LastReply(t).total = Len(records[t])
              /\ LastReply(t).success = success_count[Frame(t)]
              /\ LastReply(t).error = error_count[Frame(t)]

\* The summary of a batch of a non-object, a record the controller failed to store
\* and a record it stored.
C11_Witness ==
    \E t \in Tasks :
        /\ pc[t] = "done"
        /\ Len(records[t]) = MaxBatch
        /\ ~IsDict(records[t][1])
        /\ \E k \in 1..Len(calls[t]) : StorageFailed(calls[t][k])
        /\ Replied(t, "summary")
        /\ LastReply(t).success = 1
        /\ LastReply(t).error = MaxBatch - 1

====
